---------------------------- MODULE Spec2Model ----------------------------
(***************************************************************************)
(* Connection-pool lifecycle and query path of the PostgreSQL MCP server:  *)
(* PostgresConnection (connect, disconnect) and PostgresDriver (connect,   *)
(* execute_query) of connection.py, driven by concurrent coroutines that   *)
(* interleave at their await points (asyncio: one coroutine runs at a time *)
(* and is only suspended at an await).                                     *)
(***************************************************************************)
EXTENDS Integers, Sequences, FiniteSets, TLC

(* ------------------------------ bounds --------------------------------- *)

\* Number of coroutine invocations (calls of connect, disconnect or
\* execute_query) a behaviour may contain.
NTasks == 3

\* Number of calls when callers build their drivers in every possible way and
\* submit every statement (SpecDriver).
NCalls == 2

\* Number of connections a pool can lease at once (asyncpg's max_size).
PoolCap == 2

\* Connections per pool when the server's requests outnumber them
\* (SpecServer).
TightCap == 1

Tasks == 1..NTasks

(* --------------------------- program values ---------------------------- *)

\* self.pool = None
NoPool == 0

\* self.connection is None (a driver built without a manager)
NoMgr == -1

\* db_connection, the module-level manager every request's driver is given
SharedMgr == 0

\* Managers: the shared one, and manager t for the one the driver of call t
\* constructs from its config.
Mgrs == 0..NTasks

\* Every connect() call creates at most one pool and a call runs connect()
\* at most once, so pool identities are 1..NTasks.
Pools == 1..NTasks

\* SQL texts a caller may submit: one that yields a row, one that succeeds
\* with zero rows, one the database rejects, and the empty text.
Queries == {"SELECT 1 AS one", "DELETE FROM t WHERE FALSE", "SELEC 1", ""}

\* The query argument of a call that has not read it yet.
NoQuery == "<not read>"

(* ----------------------------- exceptions ------------------------------ *)

\* Classes derived from asyncpg.PostgresError (errors reported by the server).
PostgresErrorClasses == {"InvalidPasswordError", "PostgresSyntaxError",
                         "CannotConnectNowError"}

\* isinstance(e, asyncpg.PostgresError): what the first except clause matches.
IsPostgresError(e) == e.cls \in PostgresErrorClasses

\* The classes derived from Exception, which "except Exception" catches
\* (asyncio.CancelledError and KeyboardInterrupt are not among them).
ExceptionClasses == PostgresErrorClasses \cup
    {"OSError", "TimeoutError", "InterfaceError", "AttributeError",
     "ValueError", "ConnectionError", "RuntimeError"}

\* isinstance(e, Exception)
IsException(e) == e.cls \in ExceptionClasses

\* An exception raised by a library call: class and str(e); no __cause__.
Raised(cls, text) == [cls |-> cls, msg |-> <<text>>, chain |-> <<>>]

NoExc == [cls |-> "none", msg |-> <<>>, chain |-> <<>>]

\* raise cls(f"{prefix}{str(e)}") from e: the message is the prefix followed
\* by the text of e, and e (with its own causes) becomes the __cause__ chain.
RaiseFrom(cls, prefix, e) ==
    [cls   |-> cls,
     msg   |-> <<prefix>> \o e.msg,
     chain |-> <<[cls |-> e.cls, msg |-> e.msg]>> \o e.chain]

\* The except clauses of PostgresConnection.connect.
ConnectError(e) ==
    IF IsPostgresError(e)
    THEN RaiseFrom("ConnectionError", "Failed to connect to PostgreSQL: ", e)
    ELSE RaiseFrom("ConnectionError", "Failed to connect to database: ", e)

\* The except clauses of PostgresDriver.execute_query.
ExecuteError(e) ==
    IF IsPostgresError(e)
    THEN RaiseFrom("RuntimeError", "PostgreSQL error: ", e)
    ELSE RaiseFrom("RuntimeError", "Failed to execute query: ", e)

\* Failures asyncpg.create_pool can end with: the server refuses the
\* credentials, or the host cannot be reached.
CreateFaults == {Raised("InvalidPasswordError", "password authentication failed"),
                 Raised("OSError", "connection refused")}

\* Failures of the probe (acquire + SELECT 1) on an open pool.
ProbeFaults == {Raised("CannotConnectNowError", "the database system is shutting down")}

\* Failures of conn.fetch that are not the database rejecting the statement.
FetchFaults == {Raised("TimeoutError", "timed out")}

\* Failures of pool.close().
CloseFaults == {Raised("OSError", "connection reset by peer")}

\* pool.acquire() on a pool that is closing or closed.
PoolClosedError == Raised("InterfaceError", "pool is closed")

\* None.acquire()
NoneAcquireError == Raised("AttributeError", "'NoneType' object has no attribute 'acquire'")

(* ------------------------------- rows ---------------------------------- *)

\* What the database answers to a statement: the records conn.fetch returns,
\* or the error it raises. The empty text is an empty query to PostgreSQL,
\* which answers it with no rows and no error.
NoRecords == [ok |-> TRUE, records |-> <<>>, exc |-> NoExc]

Fetch(q) ==
    CASE q = "SELECT 1 AS one" ->
            [ok |-> TRUE, records |-> <<[col |-> "one", val |-> 1]>>, exc |-> NoExc]
      [] q = "DELETE FROM t WHERE FALSE" -> NoRecords
      [] q = "" -> NoRecords
      [] OTHER ->
            [ok |-> FALSE, records |-> <<>>,
             exc |-> Raised("PostgresSyntaxError", "syntax error at or near SELEC")]

\* RowResult(dict(row)): one cells mapping per record, in order.
RowResult(row) == [cells |-> row]

\* A value of type Optional[List[RowResult]].
NoneRows == [isNone |-> TRUE, rows |-> <<>>]

\* The conversion with "return rows or None": an empty list becomes None.
RowsOrNone(result) ==
    IF Len(result) = 0 THEN NoneRows
    ELSE [isNone |-> FALSE, rows |-> [i \in 1..Len(result) |-> RowResult(result[i])]]

\* rows = [self.RowResult(dict(row)) for row in result]
Rows(result) ==
    [isNone |-> FALSE, rows |-> [i \in 1..Len(result) |-> RowResult(result[i])]]

(* ------------------------------- state --------------------------------- *)

VARIABLES
    mgrPool,    \* mgrPool[m]: self.pool of manager m
    mgrs,       \* the managers constructed so far
    nPools,     \* number of pools asyncpg.create_pool has returned
    poolState,  \* poolState[p]: "none", "open", "closing" or "closed"
    poolMgr,    \* poolMgr[p]: the manager whose connect() created pool p
    probed,     \* the pools whose SELECT 1 probe has succeeded
    probeFailed,\* the pools whose probe has failed
    leases,     \* leases[p]: the calls holding a connection of pool p
    wire,       \* wire[p][c]: the statement in flight on connection c of pool p
    task,       \* task[t]: the call t, its position and its locals
    overlap,    \* a call has started while another was in flight
    scope       \* what the callers do: how many calls, which drivers and SQL

vars == <<mgrPool, mgrs, nPools, poolState, poolMgr, probed, probeFailed,
          leases, wire, task, overlap, scope>>

NoResult == [tag |-> "none", pool |-> NoPool, rows |-> NoneRows, exc |-> NoExc]

Returned(pool, rows) == [tag |-> "ok", pool |-> pool, rows |-> rows, exc |-> NoExc]

Raises(e) == [tag |-> "raise", pool |-> NoPool, rows |-> NoneRows, exc |-> e]

\* No connection bound to the local conn.
NoConn == 0

(* ------------------------ execute_sql's response ----------------------- *)

\* format_text_response(text): one TextContent of type "text".
FormatTextResponse(text) == [tag |-> "text", text |-> text]

\* format_error_response(error): the text "Error: " followed by the error.
FormatErrorResponse(error) == FormatTextResponse(<<"Error: ">> \o error)

\* str(list([r.cells for r in rows])): the cells of each row, in order.
CellsText(rows) == <<"[">> \o [i \in 1..Len(rows) |-> ToString(rows[i].cells)] \o <<"]">>

\* A request not answered yet.
NoResponse == [tag |-> "none", text |-> <<>>]

\* execute_sql with "except ConnectionError" in place of "except Exception":
\* the RuntimeError of execute_query escapes.
ToolResponseNarrowExcept(res) ==
    IF res.tag = "raise"
    THEN IF res.exc.cls = "ConnectionError"
         THEN FormatErrorResponse(res.exc.msg)
         ELSE [tag |-> "raise", text |-> res.exc.msg]
    ELSE IF res.rows.isNone THEN FormatTextResponse(<<"No results">>)
    ELSE FormatTextResponse(CellsText(res.rows.rows))

\* The body of execute_sql given the outcome res of execute_query: an
\* exception derived from Exception becomes an error response, any other
\* propagates; None becomes "No results"; rows become the text of their cells.
ToolResponse(res) ==
    IF res.tag = "raise"
    THEN IF IsException(res.exc)
         THEN FormatErrorResponse(res.exc.msg)
         ELSE [tag |-> "raise", text |-> res.exc.msg]
    ELSE IF res.rows.isNone THEN FormatTextResponse(<<"No results">>)
    ELSE FormatTextResponse(CellsText(res.rows.rows))

IdleTask ==
    [op |-> "none", pc |-> "idle", mgr |-> NoMgr, hadMgr |-> FALSE,
     cfg |-> FALSE, query |-> NoQuery,
     pool |-> NoPool, made |-> NoPool, ranOn |-> NoPool, conn |-> NoConn,
     beganUnset |-> FALSE, envFault |-> FALSE, res |-> NoResult,
     resp |-> NoResponse]

InitState ==
    /\ wire = [p \in Pools |-> [c \in 1..scope.cap |-> NoQuery]]
    /\ mgrPool = [m \in Mgrs |-> NoPool]
    /\ mgrs = {SharedMgr}
    /\ nPools = 0
    /\ poolState = [p \in Pools |-> "none"]
    /\ poolMgr = [p \in Pools |-> NoMgr]
    /\ probed = {}
    /\ probeFailed = {}
    /\ leases = [p \in Pools |-> {}]
    /\ task = [t \in Tasks |-> IdleTask]
    /\ overlap = FALSE

\* The server: every request builds PostgresDriver(db_connection, config).
ServerDrivers == {[connection |-> SharedMgr, config |-> TRUE]}

\* The ways a PostgresDriver can be constructed: as the server does, with a
\* config only, or with neither.
Drivers == ServerDrivers \cup {[connection |-> NoMgr, config |-> TRUE],
                               [connection |-> NoMgr, config |-> FALSE]}

\* The server's calls: NTasks of them, on the shared manager.
Init ==
    /\ scope = [calls |-> NTasks, drivers |-> ServerDrivers,
                queries |-> {"SELECT 1 AS one"}, cap |-> PoolCap,
                startup |-> FALSE]
    /\ InitState

\* Callers of the library: NCalls calls, any driver, any statement.
InitDriver ==
    /\ scope = [calls |-> NCalls, drivers |-> Drivers, queries |-> Queries,
                cap |-> PoolCap, startup |-> FALSE]
    /\ InitState

\* The server process: main() awaits db_connection.connect() (call 1) and
\* then serves execute_sql requests; the requests outnumber the connections.
InitServer ==
    /\ scope = [calls |-> NTasks, drivers |-> ServerDrivers, queries |-> Queries,
                cap |-> TightCap, startup |-> TRUE]
    /\ InitState

InFlight(t) == task[t].pc \notin {"idle", "done"}

\* Calls are interchangeable, so they are numbered in the order they start.
IsNext(t) ==
    /\ t <= scope.calls
    /\ task[t].pc = "idle"
    /\ \A u \in 1..(t - 1) : task[u].pc # "idle"

\* The ghost overlap is raised when call t starts while another is in flight.
StartOverlap(t) == overlap \/ \E u \in Tasks \ {t} : InFlight(u)

\* The call t becomes r. An execute_query is made by execute_sql, which
\* turns its outcome into the response when it ends.
Set(t, r) ==
    task' = [task EXCEPT ![t] =
                IF r.op = "execute" /\ r.pc = "done"
                THEN [r EXCEPT !.resp = ToolResponse(r.res)]
                ELSE r]

UnchangedPools == UNCHANGED <<nPools, poolState, poolMgr, probed, probeFailed,
                              leases, wire>>

\* A pool that leases any connection, whether it is out or not.
FreeConnsShared(p) == 1..scope.cap

\* The connections of pool p that no call holds.
FreeConns(p) ==
    {c \in 1..scope.cap : \A t \in leases[p] : task[t].conn # c}

\* "async with pool.acquire() as conn": the connection the pool hands out.
LeasedConn(p) == CHOOSE c \in FreeConns(p) : \A d \in FreeConns(p) : c <= d

\* main() without its try/except: a failed startup connect() ends the process.
MainReachesServeUncaught(res) == res.tag = "ok"

\* main(): the exception of the startup connect() is caught and printed, and
\* mcp.run_stdio_async() is reached either way.
MainReachesServe(res) ==
    res.tag = "ok" \/ (res.tag = "raise" /\ IsException(res.exc))


\* The server takes requests: always for callers of the library; in the
\* server process once main() has got past its connect().
Serving ==
    scope.startup => (task[1].pc = "done" /\ MainReachesServe(task[1].res))

\* Number of pool.close() calls made on pool p: one per disconnect() that
\* found p stored.
CloseCalls(p) ==
    Cardinality({t \in Tasks : task[t].op = "disconnect" /\ task[t].pool = p})

(* ----------------------- PostgresDriver.connect ------------------------ *)

\* PostgresDriver.connect without its elif branch: a driver with only a
\* config gets no manager.
DriverConnectNoConfig(conn, cfg, t) ==
    IF conn # NoMgr THEN [ok |-> TRUE, mgr |-> conn, exc |-> NoExc]
    ELSE [ok |-> FALSE, mgr |-> NoMgr,
          exc |-> Raised("ValueError", "No connection or config provided.")]

\* PostgresDriver.connect for the driver of call t: the bound manager, else a
\* new manager built from the config (manager t), else ValueError.
DriverConnect(conn, cfg, t) ==
    IF conn # NoMgr THEN [ok |-> TRUE, mgr |-> conn, exc |-> NoExc]
    ELSE IF cfg THEN [ok |-> TRUE, mgr |-> t, exc |-> NoExc]
    ELSE [ok |-> FALSE, mgr |-> NoMgr,
          exc |-> Raised("ValueError", "No connection or config provided.")]

(* --------------------- PostgresConnection.connect ---------------------- *)

\* connect() returns pool p to its caller: a direct caller gets it as the
\* result; execute_query binds it to its local pool and goes on to acquire.
ConnectReturns(r, p) ==
    IF r.op = "connect"
    THEN [r EXCEPT !.pc = "done", !.res = Returned(p, NoneRows)]
    ELSE [r EXCEPT !.pc = "acq", !.pool = p]

\* connect() raises e (a ConnectionError): a direct caller sees it; inside
\* execute_query it is caught by the except clauses there.
ConnectRaises(r, e) ==
    IF r.op = "connect"
    THEN [r EXCEPT !.pc = "done", !.res = Raises(e)]
    ELSE [r EXCEPT !.pc = "done", !.res = Raises(ExecuteError(e))]

\* A caller invokes connect() on the shared manager: the coroutine runs up to
\* the await of asyncpg.create_pool. The server process makes this call once,
\* in main(), before it serves.
CallConnect(t) ==
    /\ IsNext(t)
    /\ scope.startup => t = 1
    /\ Set(t, [task[t] EXCEPT !.op = "connect", !.pc = "create",
                              !.mgr = SharedMgr, !.hadMgr = TRUE,
                              !.beganUnset = (mgrPool[SharedMgr] = NoPool)])
    /\ overlap' = StartOverlap(t)
    /\ UNCHANGED <<mgrPool, mgrs, scope>>
    /\ UnchangedPools

\* asyncpg.create_pool returns a new open pool, which is stored in self.pool.
ConnectCreated(t) ==
    /\ task[t].pc = "create"
    /\ LET p == nPools + 1
           m == task[t].mgr
       IN /\ nPools' = p
          /\ poolState' = [poolState EXCEPT ![p] = "open"]
          /\ poolMgr' = [poolMgr EXCEPT ![p] = m]
          /\ mgrPool' = [mgrPool EXCEPT ![m] = p]
          /\ Set(t, [task[t] EXCEPT !.pc = "probe_acq", !.made = p])
    /\ UNCHANGED <<mgrs, probed, probeFailed, leases, wire, overlap, scope>>

\* asyncpg.create_pool raises: self.pool keeps its previous value.
ConnectCreateFails(t) ==
    /\ task[t].pc = "create"
    /\ \E e \in CreateFaults :
         Set(t, ConnectRaises([task[t] EXCEPT !.envFault = TRUE], ConnectError(e)))
    /\ UNCHANGED <<mgrPool, mgrs, overlap, scope>>
    /\ UnchangedPools

\* async with self.pool.acquire(): the pool just stored leases a connection
\* for the probe; a pool closed in the meantime refuses.
ProbeAcquire(t) ==
    /\ task[t].pc = "probe_acq"
    /\ LET p == task[t].made
       IN IF poolState[p] = "open"
          THEN /\ FreeConns(p) # {}
               /\ leases' = [leases EXCEPT ![p] = @ \cup {t}]
               /\ wire' = [wire EXCEPT ![p][LeasedConn(p)] = "SELECT 1"]
               /\ Set(t, [task[t] EXCEPT !.pc = "probe_exec",
                                         !.conn = LeasedConn(p)])
          ELSE /\ Set(t, ConnectRaises(task[t], ConnectError(PoolClosedError)))
               /\ UNCHANGED <<leases, wire>>
    /\ UNCHANGED <<mgrPool, mgrs, nPools, poolState, poolMgr, probed,
                   probeFailed, overlap, scope>>

\* conn.execute("SELECT 1") succeeds: the connection is released and
\* connect() returns self.pool as it is then.
ProbeSucceeds(t) ==
    /\ task[t].pc = "probe_exec"
    /\ LET p == task[t].made
       IN /\ leases' = [leases EXCEPT ![p] = @ \ {t}]
          /\ wire' = [wire EXCEPT ![p][task[t].conn] = NoQuery]
          /\ probed' = probed \cup {p}
          /\ Set(t, ConnectReturns([task[t] EXCEPT !.conn = NoConn],
                                   mgrPool[task[t].mgr]))
    /\ UNCHANGED <<mgrPool, mgrs, nPools, poolState, poolMgr, probeFailed,
                   overlap, scope>>

\* The probe raises: the connection is released and connect() raises
\* ConnectionError; nothing touches self.pool.
ProbeFails(t) ==
    /\ task[t].pc = "probe_exec"
    /\ LET p == task[t].made
       IN /\ leases' = [leases EXCEPT ![p] = @ \ {t}]
          /\ wire' = [wire EXCEPT ![p][task[t].conn] = NoQuery]
          /\ probeFailed' = probeFailed \cup {p}
          /\ \E e \in ProbeFaults :
               Set(t, ConnectRaises([task[t] EXCEPT !.envFault = TRUE,
                                                    !.conn = NoConn],
                                    ConnectError(e)))
    /\ UNCHANGED <<mgrPool, mgrs, nPools, poolState, poolMgr, probed,
                   overlap, scope>>

(* -------------------- PostgresConnection.disconnect -------------------- *)

\* disconnect() on the shared manager. With no pool stored it returns at
\* once. Otherwise it calls pool.close(): a pool already closed returns at
\* once, an open one stops leasing and waits for its connections.
CallDisconnect(t) ==
    /\ IsNext(t)
    /\ LET p == mgrPool[SharedMgr]
           r == [task[t] EXCEPT !.op = "disconnect", !.mgr = SharedMgr,
                                !.hadMgr = TRUE, !.pool = p]
       IN IF p = NoPool
          THEN /\ Set(t, [r EXCEPT !.pc = "done", !.res = Returned(NoPool, NoneRows)])
               /\ UNCHANGED poolState
          ELSE IF poolState[p] = "closed"
          THEN /\ Set(t, [r EXCEPT !.pc = "done", !.res = Returned(NoPool, NoneRows)])
               /\ UNCHANGED poolState
          ELSE /\ Set(t, [r EXCEPT !.pc = "closing"])
               /\ poolState' = [poolState EXCEPT ![p] = "closing"]
    /\ overlap' = StartOverlap(t)
    /\ UNCHANGED <<mgrPool, mgrs, nPools, poolMgr, probed, probeFailed, leases,
                   wire, scope>>

\* pool.close() completes once every leased connection is back; disconnect()
\* returns and leaves self.pool as it was.
DisconnectCloses(t) ==
    /\ task[t].pc = "closing"
    /\ leases[task[t].pool] = {}
    /\ poolState' = [poolState EXCEPT ![task[t].pool] = "closed"]
    /\ Set(t, [task[t] EXCEPT !.pc = "done", !.res = Returned(NoPool, NoneRows)])
    /\ UNCHANGED <<mgrPool, mgrs, nPools, poolMgr, probed, probeFailed,
                   leases, wire, overlap, scope>>

\* pool.close() raises while closing its connections (asyncpg then terminates
\* the pool and re-raises); nothing in disconnect() catches it.
DisconnectCloseFails(t) ==
    /\ task[t].pc = "closing"
    /\ leases[task[t].pool] = {}
    /\ poolState' = [poolState EXCEPT ![task[t].pool] = "closed"]
    /\ \E e \in CloseFaults :
         Set(t, [task[t] EXCEPT !.pc = "done", !.envFault = TRUE, !.res = Raises(e)])
    /\ UNCHANGED <<mgrPool, mgrs, nPools, poolMgr, probed, probeFailed,
                   leases, wire, overlap, scope>>

(* -------------------- PostgresDriver.execute_query --------------------- *)

\* A caller builds PostgresDriver(conn, cfg) and calls execute_query(q): the
\* coroutine resolves the manager, reads its pool, and runs up to its first
\* await: that of connect() when the pool is None, else that of acquire.
\* Nothing reads the argument q before conn.fetch, so q is drawn there.
CallExecute(t) ==
    /\ IsNext(t)
    /\ Serving
    /\ \E d0 \in scope.drivers :
         LET conn == d0.connection
             cfg == d0.config
             d == DriverConnect(conn, cfg, t)
             r == [task[t] EXCEPT !.op = "execute", !.mgr = d.mgr,
                                  !.hadMgr = (conn # NoMgr), !.cfg = cfg]
         IN IF ~d.ok
            THEN /\ Set(t, [r EXCEPT !.pc = "done", !.res = Raises(ExecuteError(d.exc))])
                 /\ UNCHANGED mgrs
            ELSE /\ mgrs' = mgrs \cup {d.mgr}
                 /\ IF mgrPool[d.mgr] = NoPool
                    THEN Set(t, [r EXCEPT !.pc = "create", !.beganUnset = TRUE])
                    ELSE Set(t, [r EXCEPT !.pc = "acq", !.pool = mgrPool[d.mgr]])
    /\ overlap' = StartOverlap(t)
    /\ UNCHANGED <<mgrPool, scope>>
    /\ UnchangedPools

\* async with pool.acquire(): the local pool leases a connection that is not
\* out, once there is one, and conn.fetch(query) is submitted on it; a pool
\* that is closing or closed (or None) raises, which the except clauses
\* translate.
Acquire(t) ==
    /\ task[t].pc = "acq"
    /\ LET p == task[t].pool
       IN IF p = NoPool
          THEN /\ Set(t, [task[t] EXCEPT !.pc = "done",
                                         !.res = Raises(ExecuteError(NoneAcquireError))])
               /\ UNCHANGED <<leases, wire>>
          ELSE IF poolState[p] = "open"
          THEN /\ FreeConns(p) # {}
               /\ leases' = [leases EXCEPT ![p] = @ \cup {t}]
               /\ \E q \in scope.queries :
                    /\ wire' = [wire EXCEPT ![p][LeasedConn(p)] = q]
                    /\ Set(t, [task[t] EXCEPT !.pc = "fetch", !.ranOn = p,
                                              !.conn = LeasedConn(p),
                                              !.query = q])
          ELSE /\ Set(t, [task[t] EXCEPT !.pc = "done",
                                         !.res = Raises(ExecuteError(PoolClosedError))])
               /\ UNCHANGED <<leases, wire>>
    /\ UNCHANGED <<mgrPool, mgrs, nPools, poolState, poolMgr, probed,
                   probeFailed, overlap, scope>>

\* conn.fetch(query) answers, and an error handler that discards the
\* manager's pool when the statement failed.
FetchAnswersDropsPool(t) ==
    /\ task[t].pc = "fetch"
    /\ leases' = [leases EXCEPT ![task[t].pool] = @ \ {t}]
    /\ wire' = [wire EXCEPT ![task[t].pool][task[t].conn] = NoQuery]
    /\ LET a == Fetch(wire[task[t].pool][task[t].conn])
       IN IF a.ok
          THEN /\ Set(t, [task[t] EXCEPT !.pc = "done", !.conn = NoConn,
                                         !.res = Returned(NoPool, Rows(a.records))])
               /\ UNCHANGED mgrPool
          ELSE /\ Set(t, [task[t] EXCEPT !.pc = "done", !.conn = NoConn,
                                         !.res = Raises(ExecuteError(a.exc))])
               /\ mgrPool' = [mgrPool EXCEPT ![task[t].mgr] = NoPool]
    /\ UNCHANGED <<mgrs, nPools, poolState, poolMgr, probed,
                   probeFailed, overlap, scope>>

\* conn.fetch(query) answers with the outcome of the statement in flight on
\* the call's connection: the rows are converted and returned, or the
\* database's error is translated; the connection is released either way.
FetchAnswers(t) ==
    /\ task[t].pc = "fetch"
    /\ leases' = [leases EXCEPT ![task[t].pool] = @ \ {t}]
    /\ wire' = [wire EXCEPT ![task[t].pool][task[t].conn] = NoQuery]
    /\ LET a == Fetch(wire[task[t].pool][task[t].conn])
       IN IF a.ok
          THEN Set(t, [task[t] EXCEPT !.pc = "done", !.conn = NoConn,
                                      !.res = Returned(NoPool, Rows(a.records))])
          ELSE Set(t, [task[t] EXCEPT !.pc = "done", !.conn = NoConn,
                                      !.res = Raises(ExecuteError(a.exc))])
    /\ UNCHANGED <<mgrPool, mgrs, nPools, poolState, poolMgr, probed,
                   probeFailed, overlap, scope>>

\* conn.fetch fails and the connection is not given back (the fetch outside
\* the "async with" block).
FetchFailsKeepsLease(t) ==
    /\ task[t].pc = "fetch"
    /\ \E e \in FetchFaults :
         Set(t, [task[t] EXCEPT !.pc = "done", !.envFault = TRUE, !.conn = NoConn,
                                !.res = Raises(ExecuteError(e))])
    /\ UNCHANGED <<mgrPool, mgrs, nPools, poolState, poolMgr, probed,
                   probeFailed, leases, wire, overlap, scope>>

\* conn.fetch fails for a reason other than the statement (timeout, network).
FetchFails(t) ==
    /\ task[t].pc = "fetch"
    /\ leases' = [leases EXCEPT ![task[t].pool] = @ \ {t}]
    /\ wire' = [wire EXCEPT ![task[t].pool][task[t].conn] = NoQuery]
    /\ \E e \in FetchFaults :
         Set(t, [task[t] EXCEPT !.pc = "done", !.envFault = TRUE, !.conn = NoConn,
                                !.res = Raises(ExecuteError(e))])
    /\ UNCHANGED <<mgrPool, mgrs, nPools, poolState, poolMgr, probed,
                   probeFailed, overlap, scope>>

(* --------------------------- specification ----------------------------- *)

Next ==
    \E t \in Tasks :
        \/ CallConnect(t)
        \/ ConnectCreated(t)
        \/ ConnectCreateFails(t)
        \/ ProbeAcquire(t)
        \/ ProbeSucceeds(t)
        \/ ProbeFails(t)
        \/ CallDisconnect(t)
        \/ DisconnectCloses(t)
        \/ DisconnectCloseFails(t)
        \/ CallExecute(t)
        \/ Acquire(t)
        \/ FetchAnswers(t)
        \/ FetchFails(t)

Spec == Init /\ [][Next]_vars

SpecDriver == InitDriver /\ [][Next]_vars

\* The server process: main()'s connect(), then the execute_sql requests.
\* Nothing in postgres_server.py calls disconnect().
NextServer ==
    \E t \in Tasks :
        \/ CallConnect(t)
        \/ ConnectCreated(t)
        \/ ConnectCreateFails(t)
        \/ ProbeAcquire(t)
        \/ ProbeSucceeds(t)
        \/ ProbeFails(t)
        \/ CallExecute(t)
        \/ Acquire(t)
        \/ FetchAnswers(t)
        \/ FetchFails(t)

SpecServer == InitServer /\ [][NextServer]_vars

\* The server process under the fairness its event loop gives: a call waiting
\* in acquire() is resumed once the pool has a connection to lease. No
\* timeout is passed to create_pool, acquire, execute or fetch
\* (command_timeout and the acquire timeout default to None), so nothing in
\* the program makes an awaited answer of the database arrive.
SpecServerFair ==
    /\ SpecServer
    /\ \A t \in Tasks : WF_vars(Acquire(t)) /\ WF_vars(ProbeAcquire(t))

(* ------------------------------ helpers -------------------------------- *)

Done(t) == task[t].pc = "done"

Started(t) == task[t].pc # "idle"

\* The open pools created for manager m.
OpenPools(m) == {p \in Pools : poolMgr[p] = m /\ poolState[p] = "open"}

\* An open pool its manager no longer stores: nothing can close it any more.
Orphaned(p) == poolState[p] = "open" /\ mgrPool[poolMgr[p]] # p

\* The text sub occurs in the text msg (both are sequences of pieces).
Embeds(msg, sub) ==
    \E i \in 1..(Len(msg) - Len(sub) + 1) : SubSeq(msg, i, i + Len(sub) - 1) = sub

(* ------------------------------- claims -------------------------------- *)

\* C1: two connect() calls made one after the other on one manager, with no
\* disconnect(), nothing running concurrently and the database answering the
\* second call, create exactly one pool:
\* the second call creates no pool, returns the pool the first one stored,
\* and no open pool is left unreferenced by its manager.
C1_SecondConnectReusesPool ==
    \A t1, t2 \in Tasks :
        ( /\ t1 < t2
          /\ ~overlap
          /\ \A u \in Tasks : task[u].op # "disconnect"
          /\ task[t1].op = "connect" /\ Done(t1) /\ task[t1].res.tag = "ok"
          /\ task[t2].op = "connect" /\ Done(t2) /\ ~task[t2].envFault )
        => /\ task[t2].made = NoPool
           /\ task[t2].res.tag = "ok"
           /\ task[t2].res.pool = task[t1].res.pool
           /\ Cardinality({p \in Pools : poolMgr[p] = SharedMgr}) = 1
           /\ \A p \in Pools : ~Orphaned(p)

\* C2: when calls of execute_query or connect race on a manager whose pool
\* is unset (every call so far started while the pool was unset, and there is
\* no disconnect), in every reachable state the manager has at most one open
\* pool and no open pool is orphaned.
C2_RaceCreatesOnePool ==
    ( \A t \in Tasks :
         \/ ~Started(t)
         \/ task[t].op \in {"connect", "execute"} /\ task[t].beganUnset )
    => \A m \in Mgrs :
          /\ Cardinality(OpenPools(m)) <= 1
          /\ \A p \in OpenPools(m) : ~Orphaned(p)

\* The call t ended in a failure of connect(): a direct connect() that
\* raised, or an execute_query whose lazy connect() raised.
ConnectFailed(t) ==
    /\ Done(t)
    /\ task[t].res.tag = "raise"
    /\ \/ task[t].op = "connect"
       \/ /\ task[t].op = "execute"
          /\ Len(task[t].res.exc.chain) > 0
          /\ task[t].res.exc.chain[1].cls = "ConnectionError"

\* C3: after a connect() that failed (at pool creation or at the probe), on a
\* manager nothing else has touched, the manager stores no pool; and no
\* execute_query made afterwards runs its statement on a pool whose probe
\* failed.
C3_FailedConnectKeepsNoPool ==
    /\ \A t \in Tasks :
          (ConnectFailed(t) /\ \A u \in Tasks \ {t} : ~Started(u))
          => mgrPool[task[t].mgr] = NoPool
    /\ ~overlap =>
          \A t \in Tasks :
             task[t].ranOn # NoPool => task[t].ranOn \notin probeFailed

\* C4: once disconnect() has returned on a manager that stored a pool (and
\* nothing ran concurrently), the pool is closed and the manager stores no
\* pool; and consecutive disconnect() calls call pool.close() at most once on
\* any pool.
C4_DisconnectClearsPool ==
    /\ \A t \in Tasks :
          ( /\ task[t].op = "disconnect" /\ Done(t) /\ task[t].res.tag = "ok"
            /\ task[t].pool # NoPool
            /\ ~overlap
            /\ \A u \in Tasks : u > t => ~Started(u) )
          => /\ poolState[task[t].pool] = "closed"
             /\ mgrPool[task[t].mgr] = NoPool
    /\ ~overlap => \A p \in Pools : CloseCalls(p) <= 1

\* C5: disconnect() never raises to its caller, also when closing the pool
\* fails.
C5_DisconnectNeverRaises ==
    \A t \in Tasks :
        (task[t].op = "disconnect" /\ Done(t)) => task[t].res.tag = "ok"

\* The statement of call t is one the database accepts, as far as the call
\* got to read it.
ValidStatement(t) == task[t].query = NoQuery \/ Fetch(task[t].query).ok

\* Call t is an execute_query on a driver built with a config and no manager.
ConfigOnly(t) == task[t].op = "execute" /\ ~task[t].hadMgr /\ task[t].cfg

\* C6: execute_query on a driver built with a config and no manager, with
\* the database answering and a valid statement, binds a new manager,
\* establishes its pool (created, probed and stored by this call, not by any
\* connect() of a caller), runs the statement on that pool and returns its
\* rows.
C6_LazyInit ==
    \A t \in Tasks :
        (ConfigOnly(t) /\ Done(t) /\ ~task[t].envFault /\ ValidStatement(t))
        => /\ task[t].mgr \in mgrs \ {SharedMgr}
           /\ \A u \in Tasks : task[u].op = "connect" => task[u].mgr # task[t].mgr
           /\ task[t].made # NoPool
           /\ task[t].made \in probed
           /\ mgrPool[task[t].mgr] = task[t].made
           /\ task[t].ranOn = task[t].made
           /\ task[t].query # NoQuery
           /\ task[t].res.tag = "ok"
           /\ task[t].res.rows = Rows(Fetch(task[t].query).records)

\* C6 happens: a config-only call has returned the row of its statement.
C6_Witness ==
    \E t \in Tasks :
        /\ ConfigOnly(t) /\ Done(t) /\ task[t].res.tag = "ok"
        /\ task[t].query = "SELECT 1 AS one"
        /\ Len(task[t].res.rows.rows) = 1
        /\ task[t].made # NoPool

\* The classes of the errors the code raises for a failed connection, a
\* rejected statement and any other failure of the execution.
OtherErrorClasses ==
    {ConnectError(e).cls : e \in CreateFaults \cup ProbeFaults}
    \cup {ExecuteError(Fetch("SELEC 1").exc).cls}
    \cup {ExecuteError(e).cls : e \in FetchFaults}

\* C7: execute_query on a driver with neither a manager nor a config raises
\* an error whose class is none of those raised for connection, query and
\* execution failures, and neither creates a pool nor submits the statement.
C7_NoConfigIsOwnKind ==
    \A t \in Tasks :
        (task[t].op = "execute" /\ ~task[t].hadMgr /\ ~task[t].cfg /\ Done(t))
        => /\ task[t].res.tag = "raise"
           /\ task[t].res.exc.cls \notin OtherErrorClasses
           /\ task[t].made = NoPool
           /\ task[t].ranOn = NoPool

\* Call t failed while executing its statement (conn.fetch raised).
FetchFailed(t) ==
    /\ task[t].op = "execute" /\ Done(t) /\ task[t].res.tag = "raise"
    /\ task[t].ranOn # NoPool

\* C8: of two execute_query calls that failed in statement execution, one
\* because the database rejected the statement and one for another reason,
\* the errors are of different classes; and every such error carries the
\* original message.
C8_QueryVsExecutionError ==
    /\ \A t \in Tasks :
          FetchFailed(t) =>
             Embeds(task[t].res.exc.msg, task[t].res.exc.chain[1].msg)
    /\ \A t1, t2 \in Tasks :
          ( /\ FetchFailed(t1) /\ IsPostgresError(task[t1].res.exc.chain[1])
            /\ FetchFailed(t2) /\ ~IsPostgresError(task[t2].res.exc.chain[1]) )
          => task[t1].res.exc.cls # task[t2].res.exc.cls

\* Call t failed to establish the pool: asyncpg.create_pool or the probe
\* failed in its connect().
PoolNotEstablished(t) ==
    /\ Done(t) /\ task[t].res.tag = "raise"
    /\ task[t].op \in {"connect", "execute"}
    /\ task[t].envFault
    /\ task[t].ranOn = NoPool

\* The message of the innermost cause of an error (the library's own text).
RootMessage(e) == e.chain[Len(e.chain)].msg

\* C9: a failure to establish the pool reaches the caller as ConnectionError
\* with the cause's message embedded, from connect() called directly and
\* from the connect() that execute_query makes lazily.
C9_ConnectionErrorKind ==
    \A t \in Tasks :
        PoolNotEstablished(t)
        => /\ task[t].res.exc.cls = "ConnectionError"
           /\ Embeds(task[t].res.exc.msg, RootMessage(task[t].res.exc))

\* Call t executed a statement that succeeded with zero rows.
ZeroRowSuccess(t) ==
    /\ task[t].op = "execute" /\ Done(t)
    /\ task[t].ranOn # NoPool /\ ~task[t].envFault
    /\ Fetch(task[t].query).ok
    /\ Len(Fetch(task[t].query).records) = 0

\* C10: an execute_query whose statement succeeds with zero rows returns an
\* empty list, not an error; and no successful execute_query returns None.
C10_EmptyResultIsEmptyList ==
    \A t \in Tasks :
        /\ ZeroRowSuccess(t)
           => /\ task[t].res.tag = "ok"
              /\ ~task[t].res.rows.isNone
              /\ task[t].res.rows.rows = <<>>
        /\ (task[t].op = "execute" /\ Done(t) /\ task[t].res.tag = "ok")
           => ~task[t].res.rows.isNone

\* C10 happens: a DELETE that matched nothing has returned.
C10_Witness ==
    \E t \in Tasks :
        /\ ZeroRowSuccess(t)
        /\ task[t].query = "DELETE FROM t WHERE FALSE"
        /\ task[t].res.tag = "ok"

\* An execute_query call waiting for a connection or for its statement.
Waiting(t) == task[t].op = "execute" /\ task[t].pc \in {"acq", "fetch"}

\* C11: with more concurrent execute calls than the pool has connections,
\* every execute call that waits for a connection or for its statement
\* eventually completes, with rows or with an error.
C11_EveryExecuteCompletes == \A t \in Tasks : Waiting(t) ~> Done(t)

\* The outcome execute_query owes call t for the statement it submitted.
OwnOutcome(t) ==
    LET a == Fetch(task[t].query)
    IN IF a.ok THEN Returned(NoPool, Rows(a.records))
       ELSE Raises(ExecuteError(a.exc))

\* C12: for concurrent execute calls on one pool, no connection is leased to
\* two calls at once, the statement in flight on a call's connection is the
\* call's own, and a call the database answered returns the outcome of its
\* own statement.
C12_OwnConnectionOwnResult ==
    /\ \A p \in Pools : \A t1, t2 \in leases[p] :
          t1 # t2 => task[t1].conn # task[t2].conn
    /\ \A t \in Tasks :
          task[t].pc = "fetch" => wire[task[t].pool][task[t].conn] = task[t].query
    /\ \A t \in Tasks :
          ( /\ task[t].op = "execute" /\ Done(t)
            /\ task[t].query # NoQuery /\ ~task[t].envFault )
          => task[t].res = OwnOutcome(t)

\* Two calls with different statements held connections of one pool at the
\* same time (the second connection is leased only while the first is out),
\* and the one that has ended returned the rows of its own statement.
C12_Witness ==
    \E t1, t2 \in Tasks :
        /\ t1 # t2
        /\ task[t1].pc = "fetch" /\ task[t1].conn = 2
        /\ task[t2].op = "execute" /\ Done(t2) /\ task[t2].res.tag = "ok"
        /\ task[t2].ranOn = task[t1].ranOn
        /\ task[t2].query # task[t1].query
        /\ task[t2].res = OwnOutcome(t2)
        /\ Len(task[t2].res.rows.rows) = 1

\* C13: execute_sql never raises to its caller: every ended request has a
\* text response, and when driver construction or execute_query failed
\* (configuration, connection, query or execution failure) the text is
\* "Error: " followed by the error's message.
C13_ExecuteSqlAlwaysResponds ==
    \A t \in Tasks :
        (task[t].op = "execute" /\ Done(t))
        => /\ task[t].resp.tag = "text"
           /\ task[t].res.tag = "raise"
                => task[t].resp.text = <<"Error: ">> \o task[t].res.exc.msg
           /\ task[t].res.tag = "ok"
                => task[t].resp.text[1] # "Error: "

\* Requests have ended with an error response for a failure of the
\* statement and for a failure to connect.
C13_Witness ==
    \E t1, t2 \in Tasks :
        /\ task[t1].op = "execute" /\ Done(t1) /\ FetchFailed(t1)
        /\ task[t1].resp.text = <<"Error: ">> \o task[t1].res.exc.msg
        /\ task[t2].op = "execute" /\ Done(t2) /\ ConnectFailed(t2)
        /\ task[t2].resp.text = <<"Error: ">> \o task[t2].res.exc.msg

\* C14: an execute_query called with the empty statement fails with a
\* configuration or query error (ValueError or a PostgreSQL error at the
\* root); it never returns a result.
C14_EmptyStatementRejected ==
    \A t \in Tasks :
        (task[t].op = "execute" /\ Done(t) /\ task[t].query = "" /\ ~task[t].envFault)
        => /\ task[t].res.tag = "raise"
           /\ LET root == task[t].res.exc.chain[Len(task[t].res.exc.chain)]
              IN root.cls = "ValueError" \/ IsPostgresError(root)

\* The call u is inside connect() between the creation of pool p and the
\* completion of its probe.
Probing(u, p) ==
    task[u].made = p /\ task[u].pc \in {"probe_acq", "probe_exec"}

\* C15: while a connect() is between pool creation and probe completion, no
\* other call's execute_query has a statement running on that pool.
C15_NoStatementBeforeProbe ==
    \A t, u \in Tasks : \A p \in Pools :
        (t # u /\ Probing(u, p))
        => ~(task[t].op = "execute" /\ task[t].pc = "fetch" /\ task[t].ranOn = p)

\* The call t was made right after a disconnect() that closed a pool had
\* returned, with nothing running concurrently.
AfterDisconnect(t) ==
    /\ t > 1
    /\ ~overlap
    /\ task[t - 1].op = "disconnect" /\ Done(t - 1)
    /\ task[t - 1].pool # NoPool

\* C16: an execute_query issued after disconnect(), with the database
\* reachable, does not use the closed pool: it calls connect(), which
\* creates a new pool, and runs its statement on that pool.
C16_ExecuteAfterDisconnectReconnects ==
    \A t \in Tasks :
        ( /\ AfterDisconnect(t)
          /\ task[t].op = "execute" /\ Done(t) /\ ~task[t].envFault )
        => /\ task[t].made # NoPool
           /\ task[t].ranOn = task[t].made
           /\ task[t].ranOn # task[t - 1].pool
           /\ task[t].res.tag = "ok"

\* C17: a connection is out only while its holder is inside the
\* "async with" block of the probe or of execute_query, so it is back after
\* success and after every error; once no call is in flight no connection is
\* out; and a pool never has more connections out than its capacity.
C17_LeasesReturned ==
    /\ \A p \in Pools :
          /\ Cardinality(leases[p]) <= scope.cap
          /\ \A t \in leases[p] :
                \/ task[t].pc = "probe_exec" /\ task[t].made = p
                \/ task[t].pc = "fetch" /\ task[t].pool = p
    /\ (\A t \in Tasks : ~InFlight(t)) => \A p \in Pools : leases[p] = {}

\* The startup probe failed and gave its connection back; one request holds
\* the pool's connections and another waits for one.
C17_Witness ==
    \E t1, t2, t3 \in Tasks : \E p \in Pools :
        /\ ConnectFailed(t1) /\ task[t1].made = p /\ p \in probeFailed
        /\ task[t2].pc = "fetch" /\ task[t2].pool = p /\ t2 \in leases[p]
        /\ task[t3].pc = "acq" /\ task[t3].pool = p
        /\ FreeConns(p) = {}
        /\ Cardinality(leases[p]) = scope.cap

\* The pool the manager of call t stored when the call was made.
PoolAtCall(t) == IF task[t].beganUnset THEN NoPool ELSE task[t].pool

\* The call t is the latest call made, and no two calls have overlapped.
LastAlone(t) == ~overlap /\ \A u \in Tasks : u > t => ~Started(u)

\* The call t follows, on the same manager and with nothing concurrent, an
\* execute_query that failed during statement execution; its own statement
\* is valid and the database answers it.
FollowsFailedStatement(t) ==
    /\ t > 1 /\ ~overlap
    /\ FetchFailed(t - 1)
    /\ task[t].op = "execute" /\ Done(t)
    /\ task[t].mgr = task[t - 1].mgr
    /\ ~task[t].envFault /\ ValidStatement(t)

\* A following execute_query succeeds on the same pool without reconnecting.
SucceedsWithoutReconnect(t) ==
    /\ task[t].res.tag = "ok"
    /\ task[t].made = NoPool
    /\ task[t].ranOn = task[t - 1].ranOn

\* C18 as stated: after an execute_query that failed during statement
\* execution, the manager stores the same pool as before the call, still
\* open; and a following execute_query with a valid statement succeeds
\* without reconnecting.
C18_FailedStatementSamePoolAsBefore ==
    /\ \A t \in Tasks :
          (FetchFailed(t) /\ LastAlone(t))
          => /\ mgrPool[task[t].mgr] = PoolAtCall(t)
             /\ mgrPool[task[t].mgr] # NoPool
             /\ poolState[mgrPool[task[t].mgr]] = "open"
    /\ \A t \in Tasks : FollowsFailedStatement(t) => SucceedsWithoutReconnect(t)

\* C18 amended: after an execute_query that failed during statement
\* execution, the manager stores the pool the statement was submitted on,
\* still open: the pool stored before the call when there was one, else the
\* pool the call established lazily; and a following execute_query with a
\* valid statement succeeds on that pool without reconnecting.
C18_FailedStatementKeepsPool ==
    /\ \A t \in Tasks :
          (FetchFailed(t) /\ LastAlone(t))
          => /\ mgrPool[task[t].mgr] = task[t].ranOn
             /\ poolState[task[t].ranOn] = "open"
             /\ IF task[t].beganUnset
                THEN task[t].ranOn = task[t].made
                ELSE task[t].ranOn = PoolAtCall(t) /\ task[t].made = NoPool
    /\ \A t \in Tasks : FollowsFailedStatement(t) => SucceedsWithoutReconnect(t)

\* After the startup connect(), a request whose statement the database
\* rejected left the pool stored and open, and the next request returned
\* rows from it without reconnecting.
C18_Witness ==
    \E t \in Tasks :
        /\ FollowsFailedStatement(t)
        /\ ~task[t - 1].beganUnset /\ ~task[t - 1].envFault
        /\ PoolAtCall(t - 1) = task[t].ranOn
        /\ mgrPool[SharedMgr] = task[t].ranOn
        /\ SucceedsWithoutReconnect(t)
        /\ Len(task[t].res.rows.rows) = 1

\* main()'s connect() raised.
StartupFailed == task[1].op = "connect" /\ ConnectFailed(1)

\* C19: after a failed startup connect() the server serves all the same; a
\* request made while the shared manager has no pool calls connect() again;
\* and a request whose statement is valid and which the database answers
\* returns rows, having established the pool when there was none.
C19_StartupFailureNotPermanent ==
    /\ (scope.startup /\ Done(1)) => Serving
    /\ \A t \in Tasks :
          ( /\ StartupFailed
            /\ task[t].op = "execute" /\ task[t].beganUnset
            /\ task[t].pc \in {"acq", "fetch", "done"} )
          => task[t].made # NoPool \/ ConnectFailed(t)
    /\ \A t \in Tasks :
          ( /\ StartupFailed
            /\ task[t].op = "execute" /\ Done(t)
            /\ ~task[t].envFault /\ ValidStatement(t) )
          => /\ task[t].res = OwnOutcome(t)
             /\ task[t].res.tag = "ok"
             /\ task[t].resp.tag = "text"
             /\ mgrPool[SharedMgr] # NoPool
             /\ task[t].beganUnset => task[t].made \in probed

\* The startup connect() failed before a pool was stored, and a later
\* request connected, stored the pool it made and returned a row.
C19_Witness ==
    \E t \in Tasks :
        /\ StartupFailed /\ task[1].made = NoPool
        /\ task[t].op = "execute" /\ Done(t) /\ task[t].beganUnset
        /\ task[t].made # NoPool /\ mgrPool[SharedMgr] = task[t].made
        /\ task[t].res.tag = "ok" /\ Len(task[t].res.rows.rows) = 1

=============================================================================
